---------------------------- MODULE Spec2Model ----------------------------
(***************************************************************************)
(* A model of src/connection_enum.rs: the Connection enum, its methods     *)
(* describe() and connect(), and the dispatcher use_connection().          *)
(*                                                                         *)
(* Text is modelled as a sequence of characters (one-character strings;    *)
(* the line feed is NL, the em dash of the warning is the single element   *)
(* "em-dash").  Standard output is the sequence of characters written so   *)
(* far.  format! and println! are modelled by what they do: the format     *)
(* string is scanned and every {} is replaced by the Display rendering of  *)
(* the next argument; println! writes the result followed by a line feed.  *)
(***************************************************************************)
EXTENDS Integers, Sequences, FiniteSets, TLC

\* ------------------------------------------------------------------ bounds
\* Longest address the caller constructs.
MaxAddrLen == 1
\* Number of top-level calls the caller makes on its value (Spec).
MaxCalls == 3
\* Number of use_connection calls on freshly constructed values (SpecMulti).
MaxUses == 3

\* Characters addresses are made of: a digit (it also occurs in ports) and
\* the separator the formats put between address and port.
AddrChars == {"1", ":"}
\* Ports the caller uses: both ends of u16, the port of the warning rule and
\* the ports of the documented scenarios.
Ports == {0, 53, 443, 9000, 65535}
\* Ports of the values constructed at the call sites of SpecMulti.
CallSitePorts == {53, 443, 9000}

\* -------------------------------------------------------------------- text
NL == "\n"

DigitChars == << "0", "1", "2", "3", "4", "5", "6", "7", "8", "9" >>

\* Display for u16: decimal, most significant digit first, no leading zero,
\* "0" for zero.
RECURSIVE DisplayU16(_)
DisplayU16(n) ==
    IF n < 10 THEN << DigitChars[n + 1] >>
    ELSE DisplayU16(n \div 10) \o << DigitChars[(n % 10) + 1] >>

\* Display for bool: the words true and false.
DisplayBool(b) ==
    IF b THEN << "t", "r", "u", "e" >> ELSE << "f", "a", "l", "s", "e" >>

\* Display for String: the text itself.
DisplayStr(s) == s

\* The positions of fmt where a {} starts.
Placeholders(fmt) ==
    { i \in 1..(Len(fmt) - 1) : fmt[i] = "{" /\ fmt[i + 1] = "}" }

\* The position where the k-th {} of fmt starts.
Placeholder(fmt, k) ==
    CHOOSE p \in Placeholders(fmt) :
        Cardinality({ q \in Placeholders(fmt) : q < p }) = k - 1

\* fmt from behind its (k-1)-th {} on, formatted.
RECURSIVE FormatFrom(_, _, _)
FormatFrom(fmt, args, k) ==
    LET start == IF k = 1 THEN 1 ELSE Placeholder(fmt, k - 1) + 2
    IN  IF k > Cardinality(Placeholders(fmt))
        THEN SubSeq(fmt, start, Len(fmt))
        ELSE SubSeq(fmt, start, Placeholder(fmt, k) - 1) \o args[k]
                 \o FormatFrom(fmt, args, k + 1)

\* format!(fmt, args...): every {} of fmt, from left to right, is replaced by
\* the next argument, already rendered; every other character is copied.
Format(fmt, args) == FormatFrom(fmt, args, 1)

\* println!(fmt, args...): the formatted text and a line feed.
Println(fmt, args) == Format(fmt, args) \o << NL >>

\* ---------------------------------------------------------- format strings
\* use_connection, line 5: the format string of the first println!
UseFmt ==
    << "U", "s", "i", "n", "g", " ", "e", "n", "u", "m", " ", "c", "o", "n",
       "n", "e", "c", "t", "i", "o", "n", ":", " ", "{", "}" >>

\* use_connection, line 10: the format string of the warning println!
WarningFmt ==
    << "W", "A", "R", "N", "I", "N", "G", ":", " ", "P", "o", "r", "t", " ",
       "4", "4", "3", " ", "d", "e", "t", "e", "c", "t", "e", "d", " ", "b",
       "u", "t", " ", "e", "n", "c", "r", "y", "p", "t", "i", "o", "n", " ",
       "i", "s", " ", "O", "F", "F", "em-dash", "f", "a", "l", "l", "b", "a",
       "c", "k", " ", "t", "o", " ", "i", "n", "s", "e", "c", "u", "r", "e",
       " ", "m", "o", "d", "e" >>

\* Line 16 written as println!(""): the empty format string.
BlankFmtEmpty == << >>

\* use_connection, line 16: the format string of the last println!,
\* a string literal holding one line feed
BlankFmt ==
    << NL >>

\* connect, lines 50-53
TcpConnectFmt ==
    << "C", "o", "n", "n", "e", "c", "t", "i", "n", "g", " ", "v", "i", "a",
       " ", "T", "C", "P", " ", "t", "o", " ", "{", "}", ":", "{", "}", " ",
       "(", "e", "n", "c", "r", "y", "p", "t", "i", "o", "n", ":", " ", "{",
       "}", ")" >>

\* The Udp connect message copied from the Tcp arm.
UdpConnectFmtTcpWording ==
    << "C", "o", "n", "n", "e", "c", "t", "i", "n", "g", " ", "v", "i", "a",
       " ", "T", "C", "P", " ", "t", "o", " ", "{", "}", ":", "{", "}" >>

\* connect, line 58
UdpConnectFmt ==
    << "C", "o", "n", "n", "e", "c", "t", "i", "n", "g", " ", "v", "i", "a",
       " ", "U", "D", "P", " ", "t", "o", " ", "{", "}", ":", "{", "}" >>

\* connect, line 63
LocalConnectFmt ==
    << "C", "o", "n", "n", "e", "c", "t", "i", "n", "g", " ", "t", "o", " ",
       "l", "o", "c", "a", "l", " ", "s", "e", "r", "v", "i", "c", "e", " ",
       "o", "n", " ", "p", "o", "r", "t", " ", "{", "}" >>

\* The Tcp description written with the wording of the connect message.
TcpDescribeFmtConnectWording ==
    << "t", "c", "p", ":", "/", "/", "{", "}", ":", "{", "}", " ", "(", "e",
       "n", "c", "r", "y", "p", "t", "i", "o", "n", ":", " ", "{", "}", ")" >>

\* describe, lines 75-78
TcpDescribeFmt ==
    << "t", "c", "p", ":", "/", "/", "{", "}", ":", "{", "}", " ", "(", "e",
       "n", "c", "r", "y", "p", "t", "e", "d", ":", " ", "{", "}", ")" >>

\* The Udp description copied from the Tcp arm.
UdpDescribeFmtTcpScheme ==
    << "t", "c", "p", ":", "/", "/", "{", "}", ":", "{", "}" >>

\* describe, line 80
UdpDescribeFmt ==
    << "u", "d", "p", ":", "/", "/", "{", "}", ":", "{", "}" >>

\* describe, line 82
LocalDescribeFmt ==
    << "l", "o", "c", "a", "l", ":", "/", "/", "{", "}" >>

\* ------------------------------------------------------------- Connection
RECURSIVE SeqsUpTo(_, _)
SeqsUpTo(S, n) ==
    IF n = 0 THEN { << >> }
    ELSE LET shorter == SeqsUpTo(S, n - 1)
         IN  shorter \cup { Append(s, x) : s \in shorter, x \in S }

Addresses == SeqsUpTo(AddrChars, MaxAddrLen)

\* enum Connection: three variants, each with its own fields.
TcpValues(A, P) ==
    { [tag |-> "Tcp", address |-> a, port |-> p, encryption |-> e] :
        a \in A, p \in P, e \in BOOLEAN }
UdpValues(A, P) ==
    { [tag |-> "Udp", address |-> a, port |-> p] : a \in A, p \in P }
LocalHostValues(P) ==
    { [tag |-> "LocalHost", port |-> p] : p \in P }

Connection(A, P) == TcpValues(A, P) \cup UdpValues(A, P) \cup LocalHostValues(P)

\* The values the caller constructs.
Connections == Connection(Addresses, Ports)
\* The values constructed at the call sites of SpecMulti: one address, the
\* longest made of digits.
CallSiteValues ==
    Connection({ a \in Addresses :
                   Len(a) = MaxAddrLen /\ \A i \in 1..Len(a) : a[i] = "1" },
               CallSitePorts)

\* No value constructed yet.
Unconstructed == [tag |-> "Unconstructed"]

\* ------------------------------------------------------------------- state
VARIABLES
    conn,     \* the Connection value the caller holds
    orig,     \* that value as it was constructed
    pc,       \* "idle", the line of use_connection about to run, or "failed"
    mark,     \* length of stdout when the running use_connection was entered
    stdout,   \* every character written to standard output so far
    log,      \* the calls that returned: operation, argument, output, result
    ncalls    \* top-level calls made by the caller

vars == << conn, orig, pc, mark, stdout, log, ncalls >>

\* A returned call: the characters from+1..to of stdout are its output.
Returned(op, c, from, to, ret) ==
    [op |-> op, arg |-> c, from |-> from, to |-> to, ret |-> ret]

Output(e) == SubSeq(stdout, e.from + 1, e.to)

\* ------------------------------------------------------ Connection methods
\* The arm of the match in describe() that takes c; 0 when no arm does.
describeArm(c) ==
    IF c.tag = "Tcp" THEN 1
    ELSE IF c.tag = "Udp" THEN 2
    ELSE IF c.tag = "LocalHost" THEN 3
    ELSE 0

\* describe(&self) -> String
describe(c) ==
    IF describeArm(c) = 1 THEN
        Format(TcpDescribeFmt, << DisplayStr(c.address), DisplayU16(c.port),
                                  DisplayBool(c.encryption) >>)
    ELSE IF describeArm(c) = 2 THEN
        Format(UdpDescribeFmt, << DisplayStr(c.address), DisplayU16(c.port) >>)
    ELSE
        Format(LocalDescribeFmt, << DisplayU16(c.port) >>)

\* The arm of the match in connect() that takes c; 0 when no arm does.
connectArm(c) ==
    IF c.tag = "Tcp" THEN 1
    ELSE IF c.tag = "Udp" THEN 2
    ELSE IF c.tag = "LocalHost" THEN 3
    ELSE 0

\* connect() that remembers the values it connected and stays silent for
\* them afterwards.
connectOnce(c) ==
    IF \E i \in 1..Len(log) : log[i].op = "connect" /\ log[i].arg = c
    THEN << >>
    ELSE IF connectArm(c) = 1 THEN
        Println(TcpConnectFmt, << DisplayStr(c.address), DisplayU16(c.port),
                                  DisplayBool(c.encryption) >>)
    ELSE IF connectArm(c) = 2 THEN
        Println(UdpConnectFmt, << DisplayStr(c.address), DisplayU16(c.port) >>)
    ELSE
        Println(LocalConnectFmt, << DisplayU16(c.port) >>)

\* connect(&self): what the call writes to standard output.
connect(c) ==
    IF connectArm(c) = 1 THEN
        Println(TcpConnectFmt, << DisplayStr(c.address), DisplayU16(c.port),
                                  DisplayBool(c.encryption) >>)
    ELSE IF connectArm(c) = 2 THEN
        Println(UdpConnectFmt, << DisplayStr(c.address), DisplayU16(c.port) >>)
    ELSE
        Println(LocalConnectFmt, << DisplayU16(c.port) >>)

\* The match with its first pattern written Tcp { port: 443, .. }.
useArmAnyEncryption(c) ==
    IF c.tag = "Tcp" /\ c.port = 443 THEN 1
    ELSE IF c.tag = "Tcp" THEN 2
    ELSE IF c.tag = "Udp" THEN 3
    ELSE IF c.tag = "LocalHost" THEN 4
    ELSE 0

\* The match without its LocalHost arm.
useArmNoLocalHost(c) ==
    IF c.tag = "Tcp" /\ c.port = 443 /\ c.encryption = FALSE THEN 1
    ELSE IF c.tag = "Tcp" THEN 2
    ELSE IF c.tag = "Udp" THEN 3
    ELSE 0

\* The arm of the match in use_connection() that takes c, the first one
\* whose pattern matches; 0 when no arm does.
useArm(c) ==
    IF c.tag = "Tcp" /\ c.port = 443 /\ c.encryption = FALSE THEN 1
    ELSE IF c.tag = "Tcp" THEN 2
    ELSE IF c.tag = "Udp" THEN 3
    ELSE IF c.tag = "LocalHost" THEN 4
    ELSE 0

\* The warning arm guarded by a flag that the first warning sets.
useMatchOnce(c) ==
    IF /\ useArm(c) = 1
       /\ ~ \E i \in 1..Len(log) :
               log[i].op = "use_connection" /\ useArm(log[i].arg) = 1
    THEN Println(WarningFmt, << >>)
    ELSE << >>

\* What the taken arm of the match in use_connection() writes.
useMatch(c) ==
    IF useArm(c) = 1 THEN Println(WarningFmt, << >>) ELSE << >>

Init ==
    /\ conn \in Connections
    /\ orig = conn
    /\ pc = "idle"
    /\ mark = 0
    /\ stdout = << >>
    /\ log = << >>
    /\ ncalls = 0

InitMulti ==
    /\ conn = Unconstructed
    /\ orig = conn
    /\ pc = "idle"
    /\ mark = 0
    /\ stdout = << >>
    /\ log = << >>
    /\ ncalls = 0

\* ----------------------------------------------------------------- actions
\* The caller calls conn.describe().
Describe ==
    /\ pc = "idle"
    /\ ncalls < MaxCalls
    /\ ncalls' = ncalls + 1
    /\ IF describeArm(conn) = 0
       THEN pc' = "failed" /\ UNCHANGED log
       ELSE /\ log' = Append(log, Returned("describe", conn, Len(stdout),
                                           Len(stdout), describe(conn)))
            /\ UNCHANGED pc
    /\ UNCHANGED << conn, orig, mark, stdout >>

\* connect() taking the port out of the value it is called on.
ConnectTakingPort ==
    /\ pc = "idle"
    /\ ncalls < MaxCalls
    /\ ncalls' = ncalls + 1
    /\ stdout' = stdout \o connect(conn)
    /\ log' = Append(log, Returned("connect", conn, Len(stdout),
                                   Len(stdout \o connect(conn)), << >>))
    /\ conn' = [conn EXCEPT !.port = 0]
    /\ UNCHANGED << orig, pc, mark >>

\* The caller calls conn.connect().
Connect ==
    /\ pc = "idle"
    /\ ncalls < MaxCalls
    /\ ncalls' = ncalls + 1
    /\ IF connectArm(conn) = 0
       THEN pc' = "failed" /\ UNCHANGED << stdout, log >>
       ELSE /\ stdout' = stdout \o connect(conn)
            /\ log' = Append(log, Returned("connect", conn, Len(stdout),
                                           Len(stdout \o connect(conn)),
                                           << >>))
            /\ UNCHANGED pc
    /\ UNCHANGED << conn, orig, mark >>

\* The caller calls use_connection(&conn).
UseConnection ==
    /\ pc = "idle"
    /\ ncalls < MaxCalls
    /\ ncalls' = ncalls + 1
    /\ pc' = "line5"
    /\ mark' = Len(stdout)
    /\ UNCHANGED << conn, orig, stdout, log >>

\* The caller constructs c and calls use_connection(&c).
UseFresh(c) ==
    /\ pc = "idle"
    /\ ncalls < MaxUses
    /\ ncalls' = ncalls + 1
    /\ conn' = c
    /\ orig' = c
    /\ pc' = "line5"
    /\ mark' = Len(stdout)
    /\ UNCHANGED << stdout, log >>

\* Lines 5 and 6 in the other order: connect() first, then the description.
UseDescribeAfterConnect ==
    /\ pc = "line5"
    /\ stdout' = stdout \o connect(conn)
                        \o Println(UseFmt, << describe(conn) >>)
    /\ log' = Append(log, Returned("describe", conn,
                                   Len(stdout \o connect(conn)),
                                   Len(stdout \o connect(conn)),
                                   describe(conn)))
    /\ pc' = "line7"
    /\ UNCHANGED << conn, orig, mark, ncalls >>

\* Line 5: println!("Using enum connection: {}", conn.describe()).
UseDescribe ==
    /\ pc = "line5"
    /\ IF describeArm(conn) = 0
       THEN pc' = "failed" /\ UNCHANGED << stdout, log >>
       ELSE /\ stdout' = stdout \o Println(UseFmt, << describe(conn) >>)
            /\ log' = Append(log, Returned("describe", conn, Len(stdout),
                                           Len(stdout), describe(conn)))
            /\ pc' = "line6"
    /\ UNCHANGED << conn, orig, mark, ncalls >>

\* Line 6: conn.connect().
UseConnect ==
    /\ pc = "line6"
    /\ IF connectArm(conn) = 0
       THEN pc' = "failed" /\ UNCHANGED << stdout, log >>
       ELSE /\ stdout' = stdout \o connect(conn)
            /\ log' = Append(log, Returned("connect", conn, Len(stdout),
                                           Len(stdout \o connect(conn)),
                                           << >>))
            /\ pc' = "line7"
    /\ UNCHANGED << conn, orig, mark, ncalls >>

\* Lines 7-15: match conn { ... }.
UseMatch ==
    /\ pc = "line7"
    /\ IF useArm(conn) = 0
       THEN pc' = "failed" /\ UNCHANGED stdout
       ELSE /\ stdout' = stdout \o useMatch(conn)
            /\ pc' = "line16"
    /\ UNCHANGED << conn, orig, mark, log, ncalls >>

\* Lines 16-17: println!("\n") and the return.
UseReturn ==
    /\ pc = "line16"
    /\ stdout' = stdout \o Println(BlankFmt, << >>)
    /\ log' = Append(log, Returned("use_connection", conn, mark,
                                   Len(stdout \o Println(BlankFmt, << >>)),
                                   << >>))
    /\ pc' = "idle"
    /\ UNCHANGED << conn, orig, mark, ncalls >>

UseStep == UseDescribe \/ UseConnect \/ UseMatch \/ UseReturn

Next ==
    \/ Describe
    \/ Connect
    \/ UseConnection
    \/ UseDescribe
    \/ UseConnect
    \/ UseMatch
    \/ UseReturn

\* One value, constructed once, and up to MaxCalls calls on it.
Spec == Init /\ [][Next]_vars

\* The program is sequential and use_connection has no loop and waits for
\* nothing: a call that was entered runs on to its return.
SpecFair == Spec /\ WF_vars(UseStep)

NextMulti ==
    \/ \E c \in CallSiteValues : UseFresh(c)
    \/ UseDescribe
    \/ UseConnect
    \/ UseMatch
    \/ UseReturn

\* Up to MaxUses calls of use_connection, each on a value constructed for it.
SpecMulti == InitMulti /\ [][NextMulti]_vars

\* ------------------------------------------------------ reading the output
\* The positions of the line feeds of a text.
LineEnds(text) == { i \in 1..Len(text) : text[i] = NL }

\* The lines of a text: what stands before each line feed, and what follows
\* the last one when that is not empty.
RECURSIVE Lines(_)
Lines(text) ==
    IF LineEnds(text) = { } THEN (IF text = << >> THEN << >> ELSE << text >>)
    ELSE LET p == CHOOSE i \in LineEnds(text) :
                      \A j \in LineEnds(text) : i <= j
         IN  << SubSeq(text, 1, p - 1) >>
                 \o Lines(SubSeq(text, p + 1, Len(text)))

NonEmptyLines(text) == SelectSeq(Lines(text), LAMBDA l : l # << >>)

\* The number of empty lines a sequence of lines ends with.
RECURSIVE TrailingEmpty(_)
TrailingEmpty(ls) ==
    IF ls = << >> \/ ls[Len(ls)] # << >> THEN 0
    ELSE 1 + TrailingEmpty(SubSeq(ls, 1, Len(ls) - 1))

StartsWith(text, prefix) ==
    Len(text) >= Len(prefix) /\ SubSeq(text, 1, Len(prefix)) = prefix

DigitValue(ch) ==
    CASE ch = "0" -> 0 [] ch = "1" -> 1 [] ch = "2" -> 2 [] ch = "3" -> 3
      [] ch = "4" -> 4 [] ch = "5" -> 5 [] ch = "6" -> 6 [] ch = "7" -> 7
      [] ch = "8" -> 8 [] ch = "9" -> 9 [] OTHER -> -1

RECURSIVE DecValue(_)
DecValue(d) ==
    IF d = << >> THEN 0
    ELSE 10 * DecValue(SubSeq(d, 1, Len(d) - 1)) + DigitValue(d[Len(d)])

\* d is the decimal numeral of n: digits only, no leading zero, value n.
IsDecimalOf(d, n) ==
    /\ Len(d) >= 1
    /\ \A i \in 1..Len(d) : DigitValue(d[i]) >= 0
    /\ Len(d) > 1 => d[1] # "0"
    /\ DecValue(d) = n

\* text is pre, then the decimal numeral of port, then post.
IsAround(text, pre, port, post) ==
    /\ Len(text) > Len(pre) + Len(post)
    /\ SubSeq(text, 1, Len(pre)) = pre
    /\ IsDecimalOf(SubSeq(text, Len(pre) + 1, Len(text) - Len(post)), port)
    /\ SubSeq(text, Len(text) - Len(post) + 1, Len(text)) = post

\* The entries of the log made by one operation.
Calls(op) == { i \in 1..Len(log) : log[i].op = op }

\* The output so far of the use_connection call in progress.
Running == SubSeq(stdout, mark + 1, Len(stdout))

InUse == pc \in {"line5", "line6", "line7", "line16"}

\* ------------------------------------------------- the documented wordings
UsingText ==
    << "U", "s", "i", "n", "g", " ", "e", "n", "u", "m", " ", "c", "o", "n",
       "n", "e", "c", "t", "i", "o", "n", ":", " " >>

WarningText ==
    << "W", "A", "R", "N", "I", "N", "G", ":", " ", "P", "o", "r", "t", " ",
       "4", "4", "3", " ", "d", "e", "t", "e", "c", "t", "e", "d", " ", "b",
       "u", "t", " ", "e", "n", "c", "r", "y", "p", "t", "i", "o", "n", " ",
       "i", "s", " ", "O", "F", "F", "em-dash", "f", "a", "l", "l", "b", "a",
       "c", "k", " ", "t", "o", " ", "i", "n", "s", "e", "c", "u", "r", "e",
       " ", "m", "o", "d", "e" >>

TcpConnectHead ==
    << "C", "o", "n", "n", "e", "c", "t", "i", "n", "g", " ", "v", "i", "a",
       " ", "T", "C", "P", " ", "t", "o", " " >>

TcpConnectMid ==
    << " ", "(", "e", "n", "c", "r", "y", "p", "t", "i", "o", "n", ":", " " >>

UdpConnectHead ==
    << "C", "o", "n", "n", "e", "c", "t", "i", "n", "g", " ", "v", "i", "a",
       " ", "U", "D", "P", " ", "t", "o", " " >>

LocalConnectHead ==
    << "C", "o", "n", "n", "e", "c", "t", "i", "n", "g", " ", "t", "o", " ",
       "l", "o", "c", "a", "l", " ", "s", "e", "r", "v", "i", "c", "e", " ",
       "o", "n", " ", "p", "o", "r", "t", " " >>

TcpScheme ==
    << "t", "c", "p", ":", "/", "/" >>

UdpScheme ==
    << "u", "d", "p", ":", "/", "/" >>

LocalScheme ==
    << "l", "o", "c", "a", "l", ":", "/", "/" >>

TcpDescribeMid ==
    << " ", "(", "e", "n", "c", "r", "y", "p", "t", "e", "d", ":", " " >>

TrueWord ==
    << "t", "r", "u", "e" >>

FalseWord ==
    << "f", "a", "l", "s", "e" >>

Word(b) == IF b THEN TrueWord ELSE FalseWord

\* text is the documented description of c.
IsDescription(text, c) ==
    IF c.tag = "Tcp" THEN
        IsAround(text, TcpScheme \o c.address \o << ":" >>, c.port,
                 TcpDescribeMid \o Word(c.encryption) \o << ")" >>)
    ELSE IF c.tag = "Udp" THEN
        IsAround(text, UdpScheme \o c.address \o << ":" >>, c.port, << >>)
    ELSE
        c.tag = "LocalHost" /\ IsAround(text, LocalScheme, c.port, << >>)

\* text is the documented connect message of c.
IsConnectMessage(text, c) ==
    IF c.tag = "Tcp" THEN
        IsAround(text, TcpConnectHead \o c.address \o << ":" >>, c.port,
                 TcpConnectMid \o Word(c.encryption) \o << ")" >>)
    ELSE IF c.tag = "Udp" THEN
        IsAround(text, UdpConnectHead \o c.address \o << ":" >>, c.port, << >>)
    ELSE
        c.tag = "LocalHost" /\ IsAround(text, LocalConnectHead, c.port, << >>)

\* The documented warning condition.
WarningCase(c) == c.tag = "Tcp" /\ c.port = 443 /\ c.encryption = FALSE

Warned(text) ==
    LET ls == Lines(text) IN \E k \in 1..Len(ls) : ls[k] = WarningText

\* ------------------------------------------------------------------ claims
\* C1: a returned use_connection call has emitted the warning line if and
\* only if its argument is a Tcp value with port 443 and encryption false,
\* whatever the address; no other Tcp value, no Udp value and no LocalHost
\* value gets it.
WarningIffInsecure443 ==
    \A i \in Calls("use_connection") :
        Warned(Output(log[i])) <=> WarningCase(log[i].arg)

\* A use_connection call on a Tcp value with port 443 and encryption off, and
\* a non-empty address, has returned with the warning in its output.
WarningEmitted ==
    \E i \in Calls("use_connection") :
        /\ WarningCase(log[i].arg)
        /\ log[i].arg.address # << >>
        /\ Warned(Output(log[i]))

\* C2, as stated: the output of every returned use_connection call ends
\* with exactly one empty line after its last non-empty line.
EndsWithOneEmptyLine ==
    \A i \in Calls("use_connection") :
        TrailingEmpty(Lines(Output(log[i]))) = 1

\* C2, amended: the output of every returned use_connection call ends with
\* exactly two empty lines after its last non-empty line, which is the
\* connect message or, when it is emitted, the warning line; the output ends
\* with the line feed of the second one.
EndsWithTwoEmptyLines ==
    \A i \in Calls("use_connection") :
        LET out == Output(log[i])
            ls == Lines(out)
            n == Len(ls) - 2
        IN  /\ TrailingEmpty(ls) = 2
            /\ n >= 2
            /\ out[Len(out)] = NL
            /\ IF WarningCase(log[i].arg)
               THEN ls[n] = WarningText
               ELSE IsConnectMessage(ls[n], log[i].arg)

\* A use_connection call on a LocalHost value has returned, its output
\* ending with empty lines.
BlankLinesEmitted ==
    /\ \E i \in Calls("use_connection") : TrailingEmpty(Lines(Output(log[i]))) > 0
    /\ \E i \in Calls("use_connection") : log[i].arg.tag = "LocalHost"

\* ls, the non-empty lines a use_connection call on c has emitted so far,
\* are the first lines of: the description line, the connect message, and
\* the warning line when the warning condition holds.
InFixedOrder(ls, c) ==
    /\ Len(ls) <= (IF WarningCase(c) THEN 3 ELSE 2)
    /\ Len(ls) >= 1 =>
           /\ StartsWith(ls[1], UsingText)
           /\ IsDescription(SubSeq(ls[1], Len(UsingText) + 1, Len(ls[1])), c)
    /\ Len(ls) >= 2 => IsConnectMessage(ls[2], c)
    /\ Len(ls) >= 3 => ls[3] = WarningText

DescribeFormat ==
    \A i \in Calls("describe") : IsDescription(log[i].ret, log[i].arg)

\* describe() has returned for an encrypted Tcp value with a five-digit port
\* and a non-empty address.
DescribedTcp ==
    \E i \in Calls("describe") :
        /\ log[i].arg.tag = "Tcp"
        /\ log[i].arg.encryption
        /\ log[i].arg.port = 65535
        /\ log[i].arg.address # << >>

ValueUnchanged ==
    /\ conn = orig
    /\ \A i \in 1..Len(log) : log[i].arg = orig

\* All three operations have been called on a value with a port other than
\* 0, and have returned.
AllOperationsReturned ==
    /\ pc = "idle"
    /\ orig.port # 0
    /\ \E i, j, k \in 1..Len(log) :
           /\ i < j /\ j < k
           /\ log[i].op = "connect"
           /\ log[j].op = "use_connection"
           /\ log[k].op = "describe"

\* C7: any two describe() calls on a value return the same text and any two
\* connect() calls on it emit the same line, whatever was called between.
SameOutputEveryTime ==
    \A i, j \in Calls("describe") \cup Calls("connect") :
        (log[i].op = log[j].op /\ log[i].arg = log[j].arg) =>
            /\ log[i].ret = log[j].ret
            /\ Output(log[i]) = Output(log[j])

\* connect() was called twice with a describe() between, and describe()
\* twice with a connect() between.
RepeatedCalls ==
    \E i, j, k, l \in 1..Len(log) :
        /\ i < j /\ j < k /\ k < l
        /\ log[i].op = "connect" /\ log[k].op = "connect"
        /\ log[j].op = "describe" /\ log[l].op = "describe"
        /\ Output(log[k]) # << >>

\* C8: the lines a use_connection call emits are determined by its argument
\* alone: any two calls on equal values, wherever they stand among the calls
\* made, emit the same output.
NoCrossCallState ==
    \A i, j \in Calls("use_connection") :
        log[i].arg = log[j].arg => Output(log[i]) = Output(log[j])

\* A call that warns, then a call on another value, then the first value
\* again.
CallsInterleaved ==
    \E i, j, k \in Calls("use_connection") :
        /\ i < j /\ j < k
        /\ WarningCase(log[i].arg)
        /\ log[j].arg # log[i].arg
        /\ log[k].arg = log[i].arg

Scheme(tag) ==
    IF tag = "Tcp" THEN TcpScheme
    ELSE IF tag = "Udp" THEN UdpScheme
    ELSE LocalScheme

\* C9: a description starts with the prefix of its own variant, 'tcp://',
\* 'udp://' or 'local://', and with the prefix of no other variant.
DistinctPrefixes ==
    \A i \in Calls("describe") :
        \A tag \in {"Tcp", "Udp", "LocalHost"} :
            StartsWith(log[i].ret, Scheme(tag)) <=> log[i].arg.tag = tag

\* describe() has returned for a Udp value with a non-empty address.
DescribedUdp ==
    \E i \in Calls("describe") :
        /\ log[i].arg.tag = "Udp"
        /\ log[i].arg.address # << >>
        /\ log[i].ret # << >>

\* C10: use_connection cannot fail: no match, in the dispatcher, in
\* connect() or in describe(), leaves a value unhandled, and every call that
\* was entered reaches its return.
CannotFail ==
    /\ [](pc # "failed")
    /\ [](conn \in Connections =>
             (describeArm(conn) # 0 /\ connectArm(conn) # 0 /\ useArm(conn) # 0))
    /\ (InUse ~> pc = "idle")

\* use_connection has returned for a LocalHost value with the largest port.
LocalHostUsed ==
    \E i \in Calls("use_connection") :
        /\ log[i].arg.tag = "LocalHost"
        /\ log[i].arg.port = 65535
        /\ pc = "idle"

=============================================================================
